---- MODULE Spec2Model ----
(***************************************************************************)
(* The expected WMTS Capabilities document of the xcube tile service,      *)
(* test/webapi/ows/wmts/res/WMTSCapabilities-CRS84.xml, and a reader that  *)
(* takes the document line by line and builds its element tree.  The       *)
(* properties of the document are stated on the tree the reader has built  *)
(* once the last line is consumed.                                         *)
(***************************************************************************)
EXTENDS Integers, Sequences, FiniteSets, TLC

VARIABLES pos, prolog, stack, result

vars == <<pos, prolog, stack, result>>

(***************************************************************************)
(* The lines of the document.  The file is written one tag per line: a     *)
(* line is the XML declaration, a start tag, an end tag, an element with   *)
(* text content, or an empty element.                                      *)
(***************************************************************************)
NoAttrs == << >>

Decl(attrs) == [kind |-> "decl", name |-> "xml", attrs |-> attrs, text |-> ""]

Open(name, attrs) == [kind |-> "open", name |-> name, attrs |-> attrs, text |-> ""]

Close(name) == [kind |-> "close", name |-> name, attrs |-> NoAttrs, text |-> ""]

Leaf(name, attrs, text) == [kind |-> "leaf", name |-> name, attrs |-> attrs, text |-> text]

Empty(name, attrs) == [kind |-> "empty", name |-> name, attrs |-> attrs, text |-> ""]

\* Lines 1..37 of WMTSCapabilities-CRS84.xml: the XML declaration, the root element's start tag, ows:ServiceIdentification and ows:ServiceProvider.
\* Entry k of the tuple is line 0 + k of the file.
ServiceLines ==
  <<
    Decl(("version" :> "1.0" @@ "encoding" :> "UTF-8")),
    Open("Capabilities", ("xmlns" :> "http://www.opengis.net/wmts/1.0" @@ "xmlns:ows" :> "http://www.opengis.net/ows/1.1" @@ "xmlns:xlink" :> "http://www.w3.org/1999/xlink" @@ "xmlns:xsi" :> "http://www.w3.org/2001/XMLSchema-instance" @@ "xsi:schemaLocation" :> "http://www.opengis.net/wmts/1.0 http://schemas.opengis.net/wmts/1.0.0/wmtsGetCapabilities_response.xsd" @@ "version" :> "1.0.0")),
    Open("ows:ServiceIdentification", NoAttrs),
    Leaf("ows:Title", NoAttrs, "xcube WMTS"),
    Leaf("ows:Abstract", NoAttrs, "Web Map Tile Service (WMTS) for xcube-conformant data cubes"),
    Open("ows:Keywords", NoAttrs),
    Leaf("ows:Keyword", NoAttrs, "tile"),
    Leaf("ows:Keyword", NoAttrs, "tile matrix set"),
    Leaf("ows:Keyword", NoAttrs, "map"),
    Close("ows:Keywords"),
    Leaf("ows:ServiceType", NoAttrs, "OGC WMTS"),
    Leaf("ows:ServiceTypeVersion", NoAttrs, "1.0.0"),
    Leaf("ows:Fees", NoAttrs, "none"),
    Leaf("ows:AccessConstraints", NoAttrs, "none"),
    Close("ows:ServiceIdentification"),
    Open("ows:ServiceProvider", NoAttrs),
    Leaf("ows:ProviderName", NoAttrs, "Brockmann Consult GmbH"),
    Empty("ows:ProviderSite", ("xlink:href" :> "https://www.brockmann-consult.de")),
    Open("ows:ServiceContact", NoAttrs),
    Leaf("ows:IndividualName", NoAttrs, "Norman Fomferra"),
    Leaf("ows:PositionName", NoAttrs, "Senior Software Engineer"),
    Open("ows:ContactInfo", NoAttrs),
    Open("ows:Phone", NoAttrs),
    Leaf("ows:Voice", NoAttrs, "+49 4152 889 303"),
    Leaf("ows:Facsimile", NoAttrs, "+49 4152 889 330"),
    Close("ows:Phone"),
    Open("ows:Address", NoAttrs),
    Leaf("ows:DeliveryPoint", NoAttrs, "HZG / GITZ"),
    Leaf("ows:City", NoAttrs, "Geesthacht"),
    Leaf("ows:AdministrativeArea", NoAttrs, "Herzogtum Lauenburg"),
    Leaf("ows:PostalCode", NoAttrs, "21502"),
    Leaf("ows:Country", NoAttrs, "Germany"),
    Leaf("ows:ElectronicMailAddress", NoAttrs, "norman.fomferra@brockmann-consult.de"),
    Close("ows:Address"),
    Close("ows:ContactInfo"),
    Close("ows:ServiceContact"),
    Close("ows:ServiceProvider")
  >>

\* Lines 38..79 of WMTSCapabilities-CRS84.xml: ows:OperationsMetadata.
\* Entry k of the tuple is line 37 + k of the file.
OperationsMetadataLines ==
  <<
    Open("ows:OperationsMetadata", NoAttrs),
    Open("ows:Operation", ("name" :> "GetCapabilities")),
    Open("ows:DCP", NoAttrs),
    Open("ows:HTTP", NoAttrs),
    Open("ows:Get", ("xlink:href" :> "http://bibo/wmts/kvp?")),
    Open("ows:Constraint", ("name" :> "GetEncoding")),
    Open("ows:AllowedValues", NoAttrs),
    Leaf("ows:Value", NoAttrs, "KVP"),
    Close("ows:AllowedValues"),
    Close("ows:Constraint"),
    Close("ows:Get"),
    Open("ows:Get", ("xlink:href" :> "http://bibo/wmts/1.0.0/WorldCRS84Quad/WMTSCapabilities.xml")),
    Open("ows:Constraint", ("name" :> "GetEncoding")),
    Open("ows:AllowedValues", NoAttrs),
    Leaf("ows:Value", NoAttrs, "REST"),
    Close("ows:AllowedValues"),
    Close("ows:Constraint"),
    Close("ows:Get"),
    Close("ows:HTTP"),
    Close("ows:DCP"),
    Close("ows:Operation"),
    Open("ows:Operation", ("name" :> "GetTile")),
    Open("ows:DCP", NoAttrs),
    Open("ows:HTTP", NoAttrs),
    Open("ows:Get", ("xlink:href" :> "http://bibo/wmts/kvp?")),
    Open("ows:Constraint", ("name" :> "GetEncoding")),
    Open("ows:AllowedValues", NoAttrs),
    Leaf("ows:Value", NoAttrs, "KVP"),
    Close("ows:AllowedValues"),
    Close("ows:Constraint"),
    Close("ows:Get"),
    Open("ows:Get", ("xlink:href" :> "http://bibo/wmts/1.0.0/")),
    Open("ows:Constraint", ("name" :> "GetEncoding")),
    Open("ows:AllowedValues", NoAttrs),
    Leaf("ows:Value", NoAttrs, "REST"),
    Close("ows:AllowedValues"),
    Close("ows:Constraint"),
    Close("ows:Get"),
    Close("ows:HTTP"),
    Close("ows:DCP"),
    Close("ows:Operation"),
    Close("ows:OperationsMetadata")
  >>

\* Lines 80..495 of WMTSCapabilities-CRS84.xml: the start tag of Contents and its Layer elements.
\* Entry k of the tuple is line 79 + k of the file.
LayerLines ==
  <<
    Open("Contents", NoAttrs),
    Open("Layer", NoAttrs),
    Leaf("ows:Identifier", NoAttrs, "demo.c2rcc_flags"),
    Leaf("ows:Title", NoAttrs, "demo/C2RCC quality flags"),
    Empty("ows:Abstract", NoAttrs),
    Open("ows:WGS84BoundingBox", NoAttrs),
    Leaf("ows:LowerCorner", NoAttrs, "0 50"),
    Leaf("ows:UpperCorner", NoAttrs, "5 52.5"),
    Close("ows:WGS84BoundingBox"),
    Open("Style", ("isDefault" :> "true")),
    Leaf("ows:Identifier", NoAttrs, "Default"),
    Close("Style"),
    Leaf("Format", NoAttrs, "image/png"),
    Open("TileMatrixSetLink", NoAttrs),
    Leaf("TileMatrixSet", NoAttrs, "WorldCRS84Quad"),
    Close("TileMatrixSetLink"),
    Empty("ResourceURL", ("format" :> "image/png" @@ "resourceType" :> "tile" @@ "template" :> "http://bibo/wmts/1.0.0/tile/demo/c2rcc_flags/WorldCRS84Quad/{TileMatrix}/{TileRow}/{TileCol}.png")),
    Open("Dimension", NoAttrs),
    Leaf("ows:Identifier", NoAttrs, "time"),
    Leaf("ows:Title", NoAttrs, "time"),
    Leaf("ows:UOM", NoAttrs, "ISO8601"),
    Leaf("Default", NoAttrs, "current"),
    Leaf("Current", NoAttrs, "true"),
    Leaf("Value", NoAttrs, "2017-01-16T10:09:05.396602624/2017-01-16T10:09:38.271909120"),
    Leaf("Value", NoAttrs, "2017-01-25T09:35:32.619965696/2017-01-25T09:36:09.500161024"),
    Leaf("Value", NoAttrs, "2017-01-26T10:50:13.978930176/2017-01-26T10:50:19.393455616"),
    Leaf("Value", NoAttrs, "2017-01-28T09:57:52.162121984/2017-01-28T09:58:30.538650112"),
    Leaf("Value", NoAttrs, "2017-01-30T10:46:29.566899712/2017-01-30T10:46:38.106885120"),
    Close("Dimension"),
    Close("Layer"),
    Open("Layer", NoAttrs),
    Leaf("ows:Identifier", NoAttrs, "demo.conc_chl"),
    Leaf("ows:Title", NoAttrs, "demo/Chlorophyll concentration"),
    Empty("ows:Abstract", NoAttrs),
    Open("ows:WGS84BoundingBox", NoAttrs),
    Leaf("ows:LowerCorner", NoAttrs, "0 50"),
    Leaf("ows:UpperCorner", NoAttrs, "5 52.5"),
    Close("ows:WGS84BoundingBox"),
    Open("Style", ("isDefault" :> "true")),
    Leaf("ows:Identifier", NoAttrs, "Default"),
    Close("Style"),
    Leaf("Format", NoAttrs, "image/png"),
    Open("TileMatrixSetLink", NoAttrs),
    Leaf("TileMatrixSet", NoAttrs, "WorldCRS84Quad"),
    Close("TileMatrixSetLink"),
    Empty("ResourceURL", ("format" :> "image/png" @@ "resourceType" :> "tile" @@ "template" :> "http://bibo/wmts/1.0.0/tile/demo/conc_chl/WorldCRS84Quad/{TileMatrix}/{TileRow}/{TileCol}.png")),
    Open("Dimension", NoAttrs),
    Leaf("ows:Identifier", NoAttrs, "time"),
    Leaf("ows:Title", NoAttrs, "time"),
    Leaf("ows:UOM", NoAttrs, "ISO8601"),
    Leaf("Default", NoAttrs, "current"),
    Leaf("Current", NoAttrs, "true"),
    Leaf("Value", NoAttrs, "2017-01-16T10:09:05.396602624/2017-01-16T10:09:38.271909120"),
    Leaf("Value", NoAttrs, "2017-01-25T09:35:32.619965696/2017-01-25T09:36:09.500161024"),
    Leaf("Value", NoAttrs, "2017-01-26T10:50:13.978930176/2017-01-26T10:50:19.393455616"),
    Leaf("Value", NoAttrs, "2017-01-28T09:57:52.162121984/2017-01-28T09:58:30.538650112"),
    Leaf("Value", NoAttrs, "2017-01-30T10:46:29.566899712/2017-01-30T10:46:38.106885120"),
    Close("Dimension"),
    Close("Layer"),
    Open("Layer", NoAttrs),
    Leaf("ows:Identifier", NoAttrs, "demo.conc_tsm"),
    Leaf("ows:Title", NoAttrs, "demo/Total suspended matter dry weight concentration"),
    Empty("ows:Abstract", NoAttrs),
    Open("ows:WGS84BoundingBox", NoAttrs),
    Leaf("ows:LowerCorner", NoAttrs, "0 50"),
    Leaf("ows:UpperCorner", NoAttrs, "5 52.5"),
    Close("ows:WGS84BoundingBox"),
    Open("Style", ("isDefault" :> "true")),
    Leaf("ows:Identifier", NoAttrs, "Default"),
    Close("Style"),
    Leaf("Format", NoAttrs, "image/png"),
    Open("TileMatrixSetLink", NoAttrs),
    Leaf("TileMatrixSet", NoAttrs, "WorldCRS84Quad"),
    Close("TileMatrixSetLink"),
    Empty("ResourceURL", ("format" :> "image/png" @@ "resourceType" :> "tile" @@ "template" :> "http://bibo/wmts/1.0.0/tile/demo/conc_tsm/WorldCRS84Quad/{TileMatrix}/{TileRow}/{TileCol}.png")),
    Open("Dimension", NoAttrs),
    Leaf("ows:Identifier", NoAttrs, "time"),
    Leaf("ows:Title", NoAttrs, "time"),
    Leaf("ows:UOM", NoAttrs, "ISO8601"),
    Leaf("Default", NoAttrs, "current"),
    Leaf("Current", NoAttrs, "true"),
    Leaf("Value", NoAttrs, "2017-01-16T10:09:05.396602624/2017-01-16T10:09:38.271909120"),
    Leaf("Value", NoAttrs, "2017-01-25T09:35:32.619965696/2017-01-25T09:36:09.500161024"),
    Leaf("Value", NoAttrs, "2017-01-26T10:50:13.978930176/2017-01-26T10:50:19.393455616"),
    Leaf("Value", NoAttrs, "2017-01-28T09:57:52.162121984/2017-01-28T09:58:30.538650112"),
    Leaf("Value", NoAttrs, "2017-01-30T10:46:29.566899712/2017-01-30T10:46:38.106885120"),
    Close("Dimension"),
    Close("Layer"),
    Open("Layer", NoAttrs),
    Leaf("ows:Identifier", NoAttrs, "demo.kd489"),
    Leaf("ows:Title", NoAttrs, "demo/Irradiance attenuation coefficient at 489 nm"),
    Empty("ows:Abstract", NoAttrs),
    Open("ows:WGS84BoundingBox", NoAttrs),
    Leaf("ows:LowerCorner", NoAttrs, "0 50"),
    Leaf("ows:UpperCorner", NoAttrs, "5 52.5"),
    Close("ows:WGS84BoundingBox"),
    Open("Style", ("isDefault" :> "true")),
    Leaf("ows:Identifier", NoAttrs, "Default"),
    Close("Style"),
    Leaf("Format", NoAttrs, "image/png"),
    Open("TileMatrixSetLink", NoAttrs),
    Leaf("TileMatrixSet", NoAttrs, "WorldCRS84Quad"),
    Close("TileMatrixSetLink"),
    Empty("ResourceURL", ("format" :> "image/png" @@ "resourceType" :> "tile" @@ "template" :> "http://bibo/wmts/1.0.0/tile/demo/kd489/WorldCRS84Quad/{TileMatrix}/{TileRow}/{TileCol}.png")),
    Open("Dimension", NoAttrs),
    Leaf("ows:Identifier", NoAttrs, "time"),
    Leaf("ows:Title", NoAttrs, "time"),
    Leaf("ows:UOM", NoAttrs, "ISO8601"),
    Leaf("Default", NoAttrs, "current"),
    Leaf("Current", NoAttrs, "true"),
    Leaf("Value", NoAttrs, "2017-01-16T10:09:05.396602624/2017-01-16T10:09:38.271909120"),
    Leaf("Value", NoAttrs, "2017-01-25T09:35:32.619965696/2017-01-25T09:36:09.500161024"),
    Leaf("Value", NoAttrs, "2017-01-26T10:50:13.978930176/2017-01-26T10:50:19.393455616"),
    Leaf("Value", NoAttrs, "2017-01-28T09:57:52.162121984/2017-01-28T09:58:30.538650112"),
    Leaf("Value", NoAttrs, "2017-01-30T10:46:29.566899712/2017-01-30T10:46:38.106885120"),
    Close("Dimension"),
    Close("Layer"),
    Open("Layer", NoAttrs),
    Leaf("ows:Identifier", NoAttrs, "demo.quality_flags"),
    Leaf("ows:Title", NoAttrs, "demo/Classification and quality flags"),
    Empty("ows:Abstract", NoAttrs),
    Open("ows:WGS84BoundingBox", NoAttrs),
    Leaf("ows:LowerCorner", NoAttrs, "0 50"),
    Leaf("ows:UpperCorner", NoAttrs, "5 52.5"),
    Close("ows:WGS84BoundingBox"),
    Open("Style", ("isDefault" :> "true")),
    Leaf("ows:Identifier", NoAttrs, "Default"),
    Close("Style"),
    Leaf("Format", NoAttrs, "image/png"),
    Open("TileMatrixSetLink", NoAttrs),
    Leaf("TileMatrixSet", NoAttrs, "WorldCRS84Quad"),
    Close("TileMatrixSetLink"),
    Empty("ResourceURL", ("format" :> "image/png" @@ "resourceType" :> "tile" @@ "template" :> "http://bibo/wmts/1.0.0/tile/demo/quality_flags/WorldCRS84Quad/{TileMatrix}/{TileRow}/{TileCol}.png")),
    Open("Dimension", NoAttrs),
    Leaf("ows:Identifier", NoAttrs, "time"),
    Leaf("ows:Title", NoAttrs, "time"),
    Leaf("ows:UOM", NoAttrs, "ISO8601"),
    Leaf("Default", NoAttrs, "current"),
    Leaf("Current", NoAttrs, "true"),
    Leaf("Value", NoAttrs, "2017-01-16T10:09:05.396602624/2017-01-16T10:09:38.271909120"),
    Leaf("Value", NoAttrs, "2017-01-25T09:35:32.619965696/2017-01-25T09:36:09.500161024"),
    Leaf("Value", NoAttrs, "2017-01-26T10:50:13.978930176/2017-01-26T10:50:19.393455616"),
    Leaf("Value", NoAttrs, "2017-01-28T09:57:52.162121984/2017-01-28T09:58:30.538650112"),
    Leaf("Value", NoAttrs, "2017-01-30T10:46:29.566899712/2017-01-30T10:46:38.106885120"),
    Close("Dimension"),
    Close("Layer"),
    Open("Layer", NoAttrs),
    Leaf("ows:Identifier", NoAttrs, "demo-1w.c2rcc_flags"),
    Leaf("ows:Title", NoAttrs, "demo-1w/C2RCC quality flags"),
    Empty("ows:Abstract", NoAttrs),
    Open("ows:WGS84BoundingBox", NoAttrs),
    Leaf("ows:LowerCorner", NoAttrs, "0 50"),
    Leaf("ows:UpperCorner", NoAttrs, "5 52.5"),
    Close("ows:WGS84BoundingBox"),
    Open("Style", ("isDefault" :> "true")),
    Leaf("ows:Identifier", NoAttrs, "Default"),
    Close("Style"),
    Leaf("Format", NoAttrs, "image/png"),
    Open("TileMatrixSetLink", NoAttrs),
    Leaf("TileMatrixSet", NoAttrs, "WorldCRS84Quad"),
    Close("TileMatrixSetLink"),
    Empty("ResourceURL", ("format" :> "image/png" @@ "resourceType" :> "tile" @@ "template" :> "http://bibo/wmts/1.0.0/tile/demo-1w/c2rcc_flags/WorldCRS84Quad/{TileMatrix}/{TileRow}/{TileCol}.png")),
    Open("Dimension", NoAttrs),
    Leaf("ows:Identifier", NoAttrs, "time"),
    Leaf("ows:Title", NoAttrs, "time"),
    Leaf("ows:UOM", NoAttrs, "ISO8601"),
    Leaf("Default", NoAttrs, "current"),
    Leaf("Current", NoAttrs, "true"),
    Leaf("Value", NoAttrs, "2017-01-22T00:00:00.000000000"),
    Leaf("Value", NoAttrs, "2017-01-29T00:00:00.000000000"),
    Leaf("Value", NoAttrs, "2017-02-05T00:00:00.000000000"),
    Close("Dimension"),
    Close("Layer"),
    Open("Layer", NoAttrs),
    Leaf("ows:Identifier", NoAttrs, "demo-1w.c2rcc_flags_stdev"),
    Leaf("ows:Title", NoAttrs, "demo-1w/C2RCC quality flags"),
    Empty("ows:Abstract", NoAttrs),
    Open("ows:WGS84BoundingBox", NoAttrs),
    Leaf("ows:LowerCorner", NoAttrs, "0 50"),
    Leaf("ows:UpperCorner", NoAttrs, "5 52.5"),
    Close("ows:WGS84BoundingBox"),
    Open("Style", ("isDefault" :> "true")),
    Leaf("ows:Identifier", NoAttrs, "Default"),
    Close("Style"),
    Leaf("Format", NoAttrs, "image/png"),
    Open("TileMatrixSetLink", NoAttrs),
    Leaf("TileMatrixSet", NoAttrs, "WorldCRS84Quad"),
    Close("TileMatrixSetLink"),
    Empty("ResourceURL", ("format" :> "image/png" @@ "resourceType" :> "tile" @@ "template" :> "http://bibo/wmts/1.0.0/tile/demo-1w/c2rcc_flags_stdev/WorldCRS84Quad/{TileMatrix}/{TileRow}/{TileCol}.png")),
    Open("Dimension", NoAttrs),
    Leaf("ows:Identifier", NoAttrs, "time"),
    Leaf("ows:Title", NoAttrs, "time"),
    Leaf("ows:UOM", NoAttrs, "ISO8601"),
    Leaf("Default", NoAttrs, "current"),
    Leaf("Current", NoAttrs, "true"),
    Leaf("Value", NoAttrs, "2017-01-22T00:00:00.000000000"),
    Leaf("Value", NoAttrs, "2017-01-29T00:00:00.000000000"),
    Leaf("Value", NoAttrs, "2017-02-05T00:00:00.000000000"),
    Close("Dimension"),
    Close("Layer"),
    Open("Layer", NoAttrs),
    Leaf("ows:Identifier", NoAttrs, "demo-1w.conc_chl"),
    Leaf("ows:Title", NoAttrs, "demo-1w/Chlorophyll concentration"),
    Empty("ows:Abstract", NoAttrs),
    Open("ows:WGS84BoundingBox", NoAttrs),
    Leaf("ows:LowerCorner", NoAttrs, "0 50"),
    Leaf("ows:UpperCorner", NoAttrs, "5 52.5"),
    Close("ows:WGS84BoundingBox"),
    Open("Style", ("isDefault" :> "true")),
    Leaf("ows:Identifier", NoAttrs, "Default"),
    Close("Style"),
    Leaf("Format", NoAttrs, "image/png"),
    Open("TileMatrixSetLink", NoAttrs),
    Leaf("TileMatrixSet", NoAttrs, "WorldCRS84Quad"),
    Close("TileMatrixSetLink"),
    Empty("ResourceURL", ("format" :> "image/png" @@ "resourceType" :> "tile" @@ "template" :> "http://bibo/wmts/1.0.0/tile/demo-1w/conc_chl/WorldCRS84Quad/{TileMatrix}/{TileRow}/{TileCol}.png")),
    Open("Dimension", NoAttrs),
    Leaf("ows:Identifier", NoAttrs, "time"),
    Leaf("ows:Title", NoAttrs, "time"),
    Leaf("ows:UOM", NoAttrs, "ISO8601"),
    Leaf("Default", NoAttrs, "current"),
    Leaf("Current", NoAttrs, "true"),
    Leaf("Value", NoAttrs, "2017-01-22T00:00:00.000000000"),
    Leaf("Value", NoAttrs, "2017-01-29T00:00:00.000000000"),
    Leaf("Value", NoAttrs, "2017-02-05T00:00:00.000000000"),
    Close("Dimension"),
    Close("Layer"),
    Open("Layer", NoAttrs),
    Leaf("ows:Identifier", NoAttrs, "demo-1w.conc_chl_stdev"),
    Leaf("ows:Title", NoAttrs, "demo-1w/Chlorophyll concentration"),
    Empty("ows:Abstract", NoAttrs),
    Open("ows:WGS84BoundingBox", NoAttrs),
    Leaf("ows:LowerCorner", NoAttrs, "0 50"),
    Leaf("ows:UpperCorner", NoAttrs, "5 52.5"),
    Close("ows:WGS84BoundingBox"),
    Open("Style", ("isDefault" :> "true")),
    Leaf("ows:Identifier", NoAttrs, "Default"),
    Close("Style"),
    Leaf("Format", NoAttrs, "image/png"),
    Open("TileMatrixSetLink", NoAttrs),
    Leaf("TileMatrixSet", NoAttrs, "WorldCRS84Quad"),
    Close("TileMatrixSetLink"),
    Empty("ResourceURL", ("format" :> "image/png" @@ "resourceType" :> "tile" @@ "template" :> "http://bibo/wmts/1.0.0/tile/demo-1w/conc_chl_stdev/WorldCRS84Quad/{TileMatrix}/{TileRow}/{TileCol}.png")),
    Open("Dimension", NoAttrs),
    Leaf("ows:Identifier", NoAttrs, "time"),
    Leaf("ows:Title", NoAttrs, "time"),
    Leaf("ows:UOM", NoAttrs, "ISO8601"),
    Leaf("Default", NoAttrs, "current"),
    Leaf("Current", NoAttrs, "true"),
    Leaf("Value", NoAttrs, "2017-01-22T00:00:00.000000000"),
    Leaf("Value", NoAttrs, "2017-01-29T00:00:00.000000000"),
    Leaf("Value", NoAttrs, "2017-02-05T00:00:00.000000000"),
    Close("Dimension"),
    Close("Layer"),
    Open("Layer", NoAttrs),
    Leaf("ows:Identifier", NoAttrs, "demo-1w.conc_tsm"),
    Leaf("ows:Title", NoAttrs, "demo-1w/Total suspended matter dry weight concentration"),
    Empty("ows:Abstract", NoAttrs),
    Open("ows:WGS84BoundingBox", NoAttrs),
    Leaf("ows:LowerCorner", NoAttrs, "0 50"),
    Leaf("ows:UpperCorner", NoAttrs, "5 52.5"),
    Close("ows:WGS84BoundingBox"),
    Open("Style", ("isDefault" :> "true")),
    Leaf("ows:Identifier", NoAttrs, "Default"),
    Close("Style"),
    Leaf("Format", NoAttrs, "image/png"),
    Open("TileMatrixSetLink", NoAttrs),
    Leaf("TileMatrixSet", NoAttrs, "WorldCRS84Quad"),
    Close("TileMatrixSetLink"),
    Empty("ResourceURL", ("format" :> "image/png" @@ "resourceType" :> "tile" @@ "template" :> "http://bibo/wmts/1.0.0/tile/demo-1w/conc_tsm/WorldCRS84Quad/{TileMatrix}/{TileRow}/{TileCol}.png")),
    Open("Dimension", NoAttrs),
    Leaf("ows:Identifier", NoAttrs, "time"),
    Leaf("ows:Title", NoAttrs, "time"),
    Leaf("ows:UOM", NoAttrs, "ISO8601"),
    Leaf("Default", NoAttrs, "current"),
    Leaf("Current", NoAttrs, "true"),
    Leaf("Value", NoAttrs, "2017-01-22T00:00:00.000000000"),
    Leaf("Value", NoAttrs, "2017-01-29T00:00:00.000000000"),
    Leaf("Value", NoAttrs, "2017-02-05T00:00:00.000000000"),
    Close("Dimension"),
    Close("Layer"),
    Open("Layer", NoAttrs),
    Leaf("ows:Identifier", NoAttrs, "demo-1w.conc_tsm_stdev"),
    Leaf("ows:Title", NoAttrs, "demo-1w/Total suspended matter dry weight concentration"),
    Empty("ows:Abstract", NoAttrs),
    Open("ows:WGS84BoundingBox", NoAttrs),
    Leaf("ows:LowerCorner", NoAttrs, "0 50"),
    Leaf("ows:UpperCorner", NoAttrs, "5 52.5"),
    Close("ows:WGS84BoundingBox"),
    Open("Style", ("isDefault" :> "true")),
    Leaf("ows:Identifier", NoAttrs, "Default"),
    Close("Style"),
    Leaf("Format", NoAttrs, "image/png"),
    Open("TileMatrixSetLink", NoAttrs),
    Leaf("TileMatrixSet", NoAttrs, "WorldCRS84Quad"),
    Close("TileMatrixSetLink"),
    Empty("ResourceURL", ("format" :> "image/png" @@ "resourceType" :> "tile" @@ "template" :> "http://bibo/wmts/1.0.0/tile/demo-1w/conc_tsm_stdev/WorldCRS84Quad/{TileMatrix}/{TileRow}/{TileCol}.png")),
    Open("Dimension", NoAttrs),
    Leaf("ows:Identifier", NoAttrs, "time"),
    Leaf("ows:Title", NoAttrs, "time"),
    Leaf("ows:UOM", NoAttrs, "ISO8601"),
    Leaf("Default", NoAttrs, "current"),
    Leaf("Current", NoAttrs, "true"),
    Leaf("Value", NoAttrs, "2017-01-22T00:00:00.000000000"),
    Leaf("Value", NoAttrs, "2017-01-29T00:00:00.000000000"),
    Leaf("Value", NoAttrs, "2017-02-05T00:00:00.000000000"),
    Close("Dimension"),
    Close("Layer"),
    Open("Layer", NoAttrs),
    Leaf("ows:Identifier", NoAttrs, "demo-1w.kd489"),
    Leaf("ows:Title", NoAttrs, "demo-1w/Irradiance attenuation coefficient at 489 nm"),
    Empty("ows:Abstract", NoAttrs),
    Open("ows:WGS84BoundingBox", NoAttrs),
    Leaf("ows:LowerCorner", NoAttrs, "0 50"),
    Leaf("ows:UpperCorner", NoAttrs, "5 52.5"),
    Close("ows:WGS84BoundingBox"),
    Open("Style", ("isDefault" :> "true")),
    Leaf("ows:Identifier", NoAttrs, "Default"),
    Close("Style"),
    Leaf("Format", NoAttrs, "image/png"),
    Open("TileMatrixSetLink", NoAttrs),
    Leaf("TileMatrixSet", NoAttrs, "WorldCRS84Quad"),
    Close("TileMatrixSetLink"),
    Empty("ResourceURL", ("format" :> "image/png" @@ "resourceType" :> "tile" @@ "template" :> "http://bibo/wmts/1.0.0/tile/demo-1w/kd489/WorldCRS84Quad/{TileMatrix}/{TileRow}/{TileCol}.png")),
    Open("Dimension", NoAttrs),
    Leaf("ows:Identifier", NoAttrs, "time"),
    Leaf("ows:Title", NoAttrs, "time"),
    Leaf("ows:UOM", NoAttrs, "ISO8601"),
    Leaf("Default", NoAttrs, "current"),
    Leaf("Current", NoAttrs, "true"),
    Leaf("Value", NoAttrs, "2017-01-22T00:00:00.000000000"),
    Leaf("Value", NoAttrs, "2017-01-29T00:00:00.000000000"),
    Leaf("Value", NoAttrs, "2017-02-05T00:00:00.000000000"),
    Close("Dimension"),
    Close("Layer"),
    Open("Layer", NoAttrs),
    Leaf("ows:Identifier", NoAttrs, "demo-1w.kd489_stdev"),
    Leaf("ows:Title", NoAttrs, "demo-1w/Irradiance attenuation coefficient at 489 nm"),
    Empty("ows:Abstract", NoAttrs),
    Open("ows:WGS84BoundingBox", NoAttrs),
    Leaf("ows:LowerCorner", NoAttrs, "0 50"),
    Leaf("ows:UpperCorner", NoAttrs, "5 52.5"),
    Close("ows:WGS84BoundingBox"),
    Open("Style", ("isDefault" :> "true")),
    Leaf("ows:Identifier", NoAttrs, "Default"),
    Close("Style"),
    Leaf("Format", NoAttrs, "image/png"),
    Open("TileMatrixSetLink", NoAttrs),
    Leaf("TileMatrixSet", NoAttrs, "WorldCRS84Quad"),
    Close("TileMatrixSetLink"),
    Empty("ResourceURL", ("format" :> "image/png" @@ "resourceType" :> "tile" @@ "template" :> "http://bibo/wmts/1.0.0/tile/demo-1w/kd489_stdev/WorldCRS84Quad/{TileMatrix}/{TileRow}/{TileCol}.png")),
    Open("Dimension", NoAttrs),
    Leaf("ows:Identifier", NoAttrs, "time"),
    Leaf("ows:Title", NoAttrs, "time"),
    Leaf("ows:UOM", NoAttrs, "ISO8601"),
    Leaf("Default", NoAttrs, "current"),
    Leaf("Current", NoAttrs, "true"),
    Leaf("Value", NoAttrs, "2017-01-22T00:00:00.000000000"),
    Leaf("Value", NoAttrs, "2017-01-29T00:00:00.000000000"),
    Leaf("Value", NoAttrs, "2017-02-05T00:00:00.000000000"),
    Close("Dimension"),
    Close("Layer"),
    Open("Layer", NoAttrs),
    Leaf("ows:Identifier", NoAttrs, "demo-1w.quality_flags"),
    Leaf("ows:Title", NoAttrs, "demo-1w/Classification and quality flags"),
    Empty("ows:Abstract", NoAttrs),
    Open("ows:WGS84BoundingBox", NoAttrs),
    Leaf("ows:LowerCorner", NoAttrs, "0 50"),
    Leaf("ows:UpperCorner", NoAttrs, "5 52.5"),
    Close("ows:WGS84BoundingBox"),
    Open("Style", ("isDefault" :> "true")),
    Leaf("ows:Identifier", NoAttrs, "Default"),
    Close("Style"),
    Leaf("Format", NoAttrs, "image/png"),
    Open("TileMatrixSetLink", NoAttrs),
    Leaf("TileMatrixSet", NoAttrs, "WorldCRS84Quad"),
    Close("TileMatrixSetLink"),
    Empty("ResourceURL", ("format" :> "image/png" @@ "resourceType" :> "tile" @@ "template" :> "http://bibo/wmts/1.0.0/tile/demo-1w/quality_flags/WorldCRS84Quad/{TileMatrix}/{TileRow}/{TileCol}.png")),
    Open("Dimension", NoAttrs),
    Leaf("ows:Identifier", NoAttrs, "time"),
    Leaf("ows:Title", NoAttrs, "time"),
    Leaf("ows:UOM", NoAttrs, "ISO8601"),
    Leaf("Default", NoAttrs, "current"),
    Leaf("Current", NoAttrs, "true"),
    Leaf("Value", NoAttrs, "2017-01-22T00:00:00.000000000"),
    Leaf("Value", NoAttrs, "2017-01-29T00:00:00.000000000"),
    Leaf("Value", NoAttrs, "2017-02-05T00:00:00.000000000"),
    Close("Dimension"),
    Close("Layer"),
    Open("Layer", NoAttrs),
    Leaf("ows:Identifier", NoAttrs, "demo-1w.quality_flags_stdev"),
    Leaf("ows:Title", NoAttrs, "demo-1w/Classification and quality flags"),
    Empty("ows:Abstract", NoAttrs),
    Open("ows:WGS84BoundingBox", NoAttrs),
    Leaf("ows:LowerCorner", NoAttrs, "0 50"),
    Leaf("ows:UpperCorner", NoAttrs, "5 52.5"),
    Close("ows:WGS84BoundingBox"),
    Open("Style", ("isDefault" :> "true")),
    Leaf("ows:Identifier", NoAttrs, "Default"),
    Close("Style"),
    Leaf("Format", NoAttrs, "image/png"),
    Open("TileMatrixSetLink", NoAttrs),
    Leaf("TileMatrixSet", NoAttrs, "WorldCRS84Quad"),
    Close("TileMatrixSetLink"),
    Empty("ResourceURL", ("format" :> "image/png" @@ "resourceType" :> "tile" @@ "template" :> "http://bibo/wmts/1.0.0/tile/demo-1w/quality_flags_stdev/WorldCRS84Quad/{TileMatrix}/{TileRow}/{TileCol}.png")),
    Open("Dimension", NoAttrs),
    Leaf("ows:Identifier", NoAttrs, "time"),
    Leaf("ows:Title", NoAttrs, "time"),
    Leaf("ows:UOM", NoAttrs, "ISO8601"),
    Leaf("Default", NoAttrs, "current"),
    Leaf("Current", NoAttrs, "true"),
    Leaf("Value", NoAttrs, "2017-01-22T00:00:00.000000000"),
    Leaf("Value", NoAttrs, "2017-01-29T00:00:00.000000000"),
    Leaf("Value", NoAttrs, "2017-02-05T00:00:00.000000000"),
    Close("Dimension"),
    Close("Layer")
  >>

\* Lines 496..533 of WMTSCapabilities-CRS84.xml: the TileMatrixSet element and the end tag of Contents.
\* Entry k of the tuple is line 495 + k of the file.
TileMatrixSetLines ==
  <<
    Open("TileMatrixSet", NoAttrs),
    Leaf("ows:Identifier", NoAttrs, "WorldCRS84Quad"),
    Leaf("ows:Title", NoAttrs, "CRS84 for the World"),
    Leaf("ows:SupportedCRS", NoAttrs, "urn:ogc:def:crs:OGC:1.3:CRS84"),
    Open("ows:BoundingBox", ("crs" :> "urn:ogc:def:crs:OGC:1.3:CRS84")),
    Leaf("ows:LowerCorner", NoAttrs, "-180 -90"),
    Leaf("ows:UpperCorner", NoAttrs, "180 90"),
    Close("ows:BoundingBox"),
    Leaf("WellKnownScaleSet", NoAttrs, "urn:ogc:def:wkss:OGC:1.0:GoogleCRS84Quad"),
    Open("TileMatrix", NoAttrs),
    Leaf("ows:Identifier", NoAttrs, "7"),
    Leaf("ScaleDenominator", NoAttrs, "2183915.093862179"),
    Leaf("TopLeftCorner", NoAttrs, "-180 90"),
    Leaf("TileWidth", NoAttrs, "256"),
    Leaf("TileHeight", NoAttrs, "256"),
    Leaf("MatrixWidth", NoAttrs, "256"),
    Leaf("MatrixHeight", NoAttrs, "128"),
    Close("TileMatrix"),
    Open("TileMatrix", NoAttrs),
    Leaf("ows:Identifier", NoAttrs, "8"),
    Leaf("ScaleDenominator", NoAttrs, "1091957.5469310896"),
    Leaf("TopLeftCorner", NoAttrs, "-180 90"),
    Leaf("TileWidth", NoAttrs, "256"),
    Leaf("TileHeight", NoAttrs, "256"),
    Leaf("MatrixWidth", NoAttrs, "512"),
    Leaf("MatrixHeight", NoAttrs, "256"),
    Close("TileMatrix"),
    Open("TileMatrix", NoAttrs),
    Leaf("ows:Identifier", NoAttrs, "9"),
    Leaf("ScaleDenominator", NoAttrs, "545978.7734655448"),
    Leaf("TopLeftCorner", NoAttrs, "-180 90"),
    Leaf("TileWidth", NoAttrs, "256"),
    Leaf("TileHeight", NoAttrs, "256"),
    Leaf("MatrixWidth", NoAttrs, "1024"),
    Leaf("MatrixHeight", NoAttrs, "512"),
    Close("TileMatrix"),
    Close("TileMatrixSet"),
    Close("Contents")
  >>

\* Lines 534..635 of WMTSCapabilities-CRS84.xml: Themes.
\* Entry k of the tuple is line 533 + k of the file.
ThemesLines ==
  <<
    Open("Themes", NoAttrs),
    Open("Theme", NoAttrs),
    Leaf("ows:Identifier", NoAttrs, "demo"),
    Leaf("ows:Title", NoAttrs, "xcube-server Demonstration L2C Cube"),
    Empty("ows:Abstract", NoAttrs),
    Open("Theme", NoAttrs),
    Leaf("ows:Identifier", NoAttrs, "demo.c2rcc_flags"),
    Leaf("ows:Title", NoAttrs, "demo/C2RCC quality flags"),
    Empty("ows:Abstract", NoAttrs),
    Leaf("LayerRef", NoAttrs, "demo.c2rcc_flags"),
    Close("Theme"),
    Open("Theme", NoAttrs),
    Leaf("ows:Identifier", NoAttrs, "demo.conc_chl"),
    Leaf("ows:Title", NoAttrs, "demo/Chlorophyll concentration"),
    Empty("ows:Abstract", NoAttrs),
    Leaf("LayerRef", NoAttrs, "demo.conc_chl"),
    Close("Theme"),
    Open("Theme", NoAttrs),
    Leaf("ows:Identifier", NoAttrs, "demo.conc_tsm"),
    Leaf("ows:Title", NoAttrs, "demo/Total suspended matter dry weight concentration"),
    Empty("ows:Abstract", NoAttrs),
    Leaf("LayerRef", NoAttrs, "demo.conc_tsm"),
    Close("Theme"),
    Open("Theme", NoAttrs),
    Leaf("ows:Identifier", NoAttrs, "demo.kd489"),
    Leaf("ows:Title", NoAttrs, "demo/Irradiance attenuation coefficient at 489 nm"),
    Empty("ows:Abstract", NoAttrs),
    Leaf("LayerRef", NoAttrs, "demo.kd489"),
    Close("Theme"),
    Open("Theme", NoAttrs),
    Leaf("ows:Identifier", NoAttrs, "demo.quality_flags"),
    Leaf("ows:Title", NoAttrs, "demo/Classification and quality flags"),
    Empty("ows:Abstract", NoAttrs),
    Leaf("LayerRef", NoAttrs, "demo.quality_flags"),
    Close("Theme"),
    Close("Theme"),
    Open("Theme", NoAttrs),
    Leaf("ows:Identifier", NoAttrs, "demo-1w"),
    Leaf("ows:Title", NoAttrs, "xcube-server Demonstration L3 Cube"),
    Empty("ows:Abstract", NoAttrs),
    Open("Theme", NoAttrs),
    Leaf("ows:Identifier", NoAttrs, "demo-1w.c2rcc_flags"),
    Leaf("ows:Title", NoAttrs, "demo-1w/C2RCC quality flags"),
    Empty("ows:Abstract", NoAttrs),
    Leaf("LayerRef", NoAttrs, "demo-1w.c2rcc_flags"),
    Close("Theme"),
    Open("Theme", NoAttrs),
    Leaf("ows:Identifier", NoAttrs, "demo-1w.c2rcc_flags_stdev"),
    Leaf("ows:Title", NoAttrs, "demo-1w/C2RCC quality flags"),
    Empty("ows:Abstract", NoAttrs),
    Leaf("LayerRef", NoAttrs, "demo-1w.c2rcc_flags_stdev"),
    Close("Theme"),
    Open("Theme", NoAttrs),
    Leaf("ows:Identifier", NoAttrs, "demo-1w.conc_chl"),
    Leaf("ows:Title", NoAttrs, "demo-1w/Chlorophyll concentration"),
    Empty("ows:Abstract", NoAttrs),
    Leaf("LayerRef", NoAttrs, "demo-1w.conc_chl"),
    Close("Theme"),
    Open("Theme", NoAttrs),
    Leaf("ows:Identifier", NoAttrs, "demo-1w.conc_chl_stdev"),
    Leaf("ows:Title", NoAttrs, "demo-1w/Chlorophyll concentration"),
    Empty("ows:Abstract", NoAttrs),
    Leaf("LayerRef", NoAttrs, "demo-1w.conc_chl_stdev"),
    Close("Theme"),
    Open("Theme", NoAttrs),
    Leaf("ows:Identifier", NoAttrs, "demo-1w.conc_tsm"),
    Leaf("ows:Title", NoAttrs, "demo-1w/Total suspended matter dry weight concentration"),
    Empty("ows:Abstract", NoAttrs),
    Leaf("LayerRef", NoAttrs, "demo-1w.conc_tsm"),
    Close("Theme"),
    Open("Theme", NoAttrs),
    Leaf("ows:Identifier", NoAttrs, "demo-1w.conc_tsm_stdev"),
    Leaf("ows:Title", NoAttrs, "demo-1w/Total suspended matter dry weight concentration"),
    Empty("ows:Abstract", NoAttrs),
    Leaf("LayerRef", NoAttrs, "demo-1w.conc_tsm_stdev"),
    Close("Theme"),
    Open("Theme", NoAttrs),
    Leaf("ows:Identifier", NoAttrs, "demo-1w.kd489"),
    Leaf("ows:Title", NoAttrs, "demo-1w/Irradiance attenuation coefficient at 489 nm"),
    Empty("ows:Abstract", NoAttrs),
    Leaf("LayerRef", NoAttrs, "demo-1w.kd489"),
    Close("Theme"),
    Open("Theme", NoAttrs),
    Leaf("ows:Identifier", NoAttrs, "demo-1w.kd489_stdev"),
    Leaf("ows:Title", NoAttrs, "demo-1w/Irradiance attenuation coefficient at 489 nm"),
    Empty("ows:Abstract", NoAttrs),
    Leaf("LayerRef", NoAttrs, "demo-1w.kd489_stdev"),
    Close("Theme"),
    Open("Theme", NoAttrs),
    Leaf("ows:Identifier", NoAttrs, "demo-1w.quality_flags"),
    Leaf("ows:Title", NoAttrs, "demo-1w/Classification and quality flags"),
    Empty("ows:Abstract", NoAttrs),
    Leaf("LayerRef", NoAttrs, "demo-1w.quality_flags"),
    Close("Theme"),
    Open("Theme", NoAttrs),
    Leaf("ows:Identifier", NoAttrs, "demo-1w.quality_flags_stdev"),
    Leaf("ows:Title", NoAttrs, "demo-1w/Classification and quality flags"),
    Empty("ows:Abstract", NoAttrs),
    Leaf("LayerRef", NoAttrs, "demo-1w.quality_flags_stdev"),
    Close("Theme"),
    Close("Theme"),
    Close("Themes")
  >>

\* Lines 636..637 of WMTSCapabilities-CRS84.xml: ServiceMetadataURL and the root element's end tag.
\* Entry k of the tuple is line 635 + k of the file.
ServiceMetadataURLLines ==
  <<
    Empty("ServiceMetadataURL", ("xlink:href" :> "http://bibo/wmts/1.0.0/WorldCRS84Quad/WMTSCapabilities.xml")),
    Close("Capabilities")
  >>

\* The document is the sections in file order.
Assemble(service, operations, layers, tileMatrixSets, themes, metadataURL) ==
  service \o operations \o layers \o tileMatrixSets \o themes \o metadataURL

(***************************************************************************)
(* Documents a faulty generator would have written, each differing from    *)
(* the expected document in one place.                                     *)
(***************************************************************************)
WithText(lines, k, text) == [lines EXCEPT ![k].text = text]

WithAttr(lines, k, attr, value) ==
  [lines EXCEPT ![k].attrs = [a \in DOMAIN @ |-> IF a = attr THEN value ELSE @[a]]]

Swap(lines, i, j) ==
  [lines EXCEPT ![i] = lines[j], ![j] = lines[i]]

\* Line 543: the LayerRef of the first nested Theme names the variable only.
DocumentVariableLayerRef ==
  Assemble(ServiceLines, OperationsMetadataLines, LayerLines, TileMatrixSetLines,
           WithText(ThemesLines, 10, "c2rcc_flags"), ServiceMetadataURLLines)

\* Line 94: the first Layer links to a tile matrix set Contents does not define.
DocumentUndefinedTileMatrixSet ==
  Assemble(ServiceLines, OperationsMetadataLines,
           WithText(LayerLines, 15, "WorldWebMercatorQuad"),
           TileMatrixSetLines, ThemesLines, ServiceMetadataURLLines)

\* Line 521: the TileMatrix of level 8 is as high as it is wide.
DocumentSquareTileMatrix ==
  Assemble(ServiceLines, OperationsMetadataLines, LayerLines,
           WithText(TileMatrixSetLines, 26, "512"),
           ThemesLines, ServiceMetadataURLLines)

\* Line 125: the ResourceURL of the Layer demo.conc_chl has the template of the
\* Layer before it.
DocumentRepeatedTemplate ==
  Assemble(ServiceLines, OperationsMetadataLines,
           WithAttr(LayerLines, 46, "template",
                    "http://bibo/wmts/1.0.0/tile/demo/c2rcc_flags/WorldCRS84Quad/{TileMatrix}/{TileRow}/{TileCol}.png"),
           TileMatrixSetLines, ThemesLines, ServiceMetadataURLLines)

\* Line 636: the ServiceMetadataURL is written with another server base URL.
DocumentOtherBaseURL ==
  Assemble(ServiceLines, OperationsMetadataLines, LayerLines, TileMatrixSetLines,
           ThemesLines,
           WithAttr(ServiceMetadataURLLines, 1, "xlink:href",
                    "http://localhost:8080/wmts/1.0.0/WorldCRS84Quad/WMTSCapabilities.xml"))

\* Line 541: the first nested Theme has the variable's title without the
\* dataset in front.
DocumentVariableThemeTitle ==
  Assemble(ServiceLines, OperationsMetadataLines, LayerLines, TileMatrixSetLines,
           WithText(ThemesLines, 8, "C2RCC quality flags"), ServiceMetadataURLLines)

\* Lines 103 and 104: the first two time Values of the first Layer change places.
DocumentUnsortedValues ==
  Assemble(ServiceLines, OperationsMetadataLines, Swap(LayerLines, 24, 25),
           TileMatrixSetLines, ThemesLines, ServiceMetadataURLLines)

\* Lines 540..543 and 546..549: the first two nested Themes of demo change
\* places (Identifier, Title and LayerRef).
DocumentReorderedThemes ==
  Assemble(ServiceLines, OperationsMetadataLines, LayerLines, TileMatrixSetLines,
           Swap(Swap(Swap(ThemesLines, 7, 13), 8, 14), 10, 16),
           ServiceMetadataURLLines)

\* Lines 254, 581 and 584: the Layer of the variable c2rcc_flags_stdev, and its
\* nested Theme and LayerRef, are identified like the Layer of c2rcc_flags,
\* whose Title they share.
DocumentIdentifierFromTitle ==
  Assemble(ServiceLines, OperationsMetadataLines,
           WithText(LayerLines, 175, "demo-1w.c2rcc_flags"),
           TileMatrixSetLines,
           WithText(WithText(ThemesLines, 48, "demo-1w.c2rcc_flags"),
                    51, "demo-1w.c2rcc_flags"),
           ServiceMetadataURLLines)

\* Line 92: the first Layer declares the Format image/jpeg, while its
\* ResourceURL serves image/png.
DocumentOtherFormat ==
  Assemble(ServiceLines, OperationsMetadataLines,
           WithText(LayerLines, 13, "image/jpeg"),
           TileMatrixSetLines, ThemesLines, ServiceMetadataURLLines)

\* Line 87: the UpperCorner of the first Layer is written latitude first.
DocumentLatitudeFirst ==
  Assemble(ServiceLines, OperationsMetadataLines,
           WithText(LayerLines, 8, "52.5 5"),
           TileMatrixSetLines, ThemesLines, ServiceMetadataURLLines)

Document ==
  Assemble(ServiceLines, OperationsMetadataLines, LayerLines, TileMatrixSetLines,
           ThemesLines, ServiceMetadataURLLines)

(***************************************************************************)
(* The reader.  pos is the line to read next, stack the elements whose     *)
(* start tag is read and whose end tag is not, outermost first, result     *)
(* the finished top-level elements, prolog the XML declarations read.      *)
(***************************************************************************)
Node(name, attrs, text) ==
  [name |-> name, attrs |-> attrs, text |-> text, children |-> << >>]

\* The element node is finished: it becomes the last child of the innermost
\* open element, or a top-level element when no element is open.
Attach(st, node) ==
  IF st = << >>
    THEN st
    ELSE [st EXCEPT ![Len(st)].children = Append(@, node)]

Line == Document[pos]

AtLine(kind) == pos <= Len(Document) /\ Line.kind = kind

Init ==
  /\ pos = 1
  /\ prolog = << >>
  /\ stack = << >>
  /\ result = << >>

XmlDeclaration ==
  /\ AtLine("decl")
  /\ stack = << >> /\ result = << >>
  /\ prolog' = Append(prolog, Line.attrs)
  /\ pos' = pos + 1
  /\ UNCHANGED <<stack, result>>

StartElement ==
  /\ AtLine("open")
  /\ stack' = Append(stack, Node(Line.name, Line.attrs, ""))
  /\ pos' = pos + 1
  /\ UNCHANGED <<prolog, result>>

TextElement ==
  /\ AtLine("leaf")
  /\ stack # << >>
  /\ stack' = Attach(stack, Node(Line.name, Line.attrs, Line.text))
  /\ pos' = pos + 1
  /\ UNCHANGED <<prolog, result>>

EmptyElement ==
  /\ AtLine("empty")
  /\ stack # << >>
  /\ stack' = Attach(stack, Node(Line.name, Line.attrs, ""))
  /\ pos' = pos + 1
  /\ UNCHANGED <<prolog, result>>

EndElement ==
  /\ AtLine("close")
  /\ stack # << >>
  /\ stack[Len(stack)].name = Line.name
  /\ LET node == stack[Len(stack)]
         rest == SubSeq(stack, 1, Len(stack) - 1)
     IN  /\ stack' = Attach(rest, node)
         /\ result' = IF rest = << >> THEN Append(result, node) ELSE result
  /\ pos' = pos + 1
  /\ UNCHANGED prolog

Next ==
  \/ XmlDeclaration
  \/ StartElement
  \/ TextElement
  \/ EmptyElement
  \/ EndElement

Spec == Init /\ [][Next]_vars

\* The whole document is read and every element is closed.
Done == pos = Len(Document) + 1 /\ stack = << >>

(***************************************************************************)
(* Strings.  A string is taken apart with Len and SubSeq.                  *)
(***************************************************************************)
CharAt(s, i) == SubSeq(s, i, i)

StartsWith(s, prefix) ==
  Len(s) >= Len(prefix) /\ SubSeq(s, 1, Len(prefix)) = prefix

EndsWith(s, suffix) ==
  Len(s) >= Len(suffix) /\ SubSeq(s, Len(s) - Len(suffix) + 1, Len(s)) = suffix

\* The places of the character c in s.
Places(s, c) == {i \in 1..Len(s) : CharAt(s, i) = c}

\* The place of the first c in s; 0 when s has none.
Find(s, c) ==
  IF Places(s, c) = {}
    THEN 0
    ELSE CHOOSE i \in Places(s, c) : \A j \in Places(s, c) : i <= j

\* The parts of s before and after its first c.
Before(s, c) == SubSeq(s, 1, Find(s, c) - 1)

After(s, c) == SubSeq(s, Find(s, c) + 1, Len(s))

Digits == {"0", "1", "2", "3", "4", "5", "6", "7", "8", "9"}

DigitValue(d) ==
  CASE d = "0" -> 0 [] d = "1" -> 1 [] d = "2" -> 2 [] d = "3" -> 3 [] d = "4" -> 4
    [] d = "5" -> 5 [] d = "6" -> 6 [] d = "7" -> 7 [] d = "8" -> 8 [] d = "9" -> 9

IsNat(s) == Len(s) > 0 /\ \A i \in 1..Len(s) : CharAt(s, i) \in Digits

RECURSIVE ParseNat(_)
ParseNat(s) ==
  IF Len(s) = 0
    THEN 0
    ELSE 10 * ParseNat(SubSeq(s, 1, Len(s) - 1)) + DigitValue(CharAt(s, Len(s)))

IsInt(s) == IF StartsWith(s, "-") THEN IsNat(Tail(s)) ELSE IsNat(s)

ParseInt(s) == IF StartsWith(s, "-") THEN 0 - ParseNat(Tail(s)) ELSE ParseNat(s)

(***************************************************************************)
(* The element tree of the document that was read.                         *)
(***************************************************************************)
\* The children of node with the given element name, in document order.
Kids(node, name) == SelectSeq(node.children, LAMBDA c : c.name = name)

\* The text of each element of a sequence of elements.
Texts(nodes) == [i \in DOMAIN nodes |-> nodes[i].text]

\* The texts of the children of node with the given element name.
KidTexts(node, name) == Texts(Kids(node, name))

\* The elements of all the sequences of a sequence of sequences, in order.
RECURSIVE Flatten(_)
Flatten(seqs) ==
  IF seqs = << >> THEN << >> ELSE Head(seqs) \o Flatten(Tail(seqs))

\* The elements named name among the children of the elements of nodes.
KidsOfAll(nodes, name) ==
  Flatten([i \in DOMAIN nodes |-> Kids(nodes[i], name)])

\* The elements named name anywhere below node, in document order.
RECURSIVE Descendants(_, _)
Descendants(node, name) ==
  Flatten([i \in DOMAIN node.children |->
             (IF node.children[i].name = name THEN <<node.children[i]>> ELSE << >>)
               \o Descendants(node.children[i], name)])

Range(seq) == {seq[i] : i \in DOMAIN seq}

Capabilities == result[1]

Contents == Kids(Capabilities, "Contents")[1]

Layers == Kids(Contents, "Layer")

TileMatrixSets == Kids(Contents, "TileMatrixSet")

Themes == Kids(Capabilities, "Themes")[1]

Operations ==
  KidsOfAll(Kids(Capabilities, "ows:OperationsMetadata"), "ows:Operation")

ServiceMetadataURLs == Kids(Capabilities, "ServiceMetadataURL")

\* The ows:Identifier of an element; the claims below check where they need
\* it that the element has exactly one.
Identifier(node) == KidTexts(node, "ows:Identifier")[1]

Title(node) == KidTexts(node, "ows:Title")[1]

LayerIdentifiers == [i \in DOMAIN Layers |-> Identifier(Layers[i])]

\* The LayerRef elements anywhere under Themes.
LayerRefs == Texts(Descendants(Themes, "LayerRef"))

\* The tile matrix sets a layer links to.
LinkedTileMatrixSets(layer) ==
  Texts(KidsOfAll(Kids(layer, "TileMatrixSetLink"), "TileMatrixSet"))

(***************************************************************************)
(* Properties of the expected document.                                    *)
(***************************************************************************)

\* C1: every LayerRef under Themes names the Identifier of a Layer of Contents,
\* and every Layer of Contents is named by exactly one LayerRef.
ThemesAgreeWithContents ==
  Done =>
    /\ \A i \in DOMAIN Layers : Len(KidTexts(Layers[i], "ows:Identifier")) = 1
    /\ \A j \in DOMAIN LayerRefs : LayerRefs[j] \in Range(LayerIdentifiers)
    /\ \A i \in DOMAIN Layers :
         Cardinality({j \in DOMAIN LayerRefs : LayerRefs[j] = LayerIdentifiers[i]}) = 1

\* The document is read, and it has Layers in Contents and LayerRefs in Themes.
ThemesAndContentsRead ==
  Done /\ Len(Layers) = 15 /\ Len(LayerRefs) = 15

TileMatrixSetIdentifiers ==
  [i \in DOMAIN TileMatrixSets |-> Identifier(TileMatrixSets[i])]

\* C2: every Layer has exactly one TileMatrixSetLink, which names the Identifier
\* of a TileMatrixSet defined in Contents; the one set defined is WorldCRS84Quad.
LayersLinkDefinedTileMatrixSet ==
  Done =>
    /\ \A i \in DOMAIN TileMatrixSets :
         Len(KidTexts(TileMatrixSets[i], "ows:Identifier")) = 1
    /\ TileMatrixSetIdentifiers = <<"WorldCRS84Quad">>
    /\ \A i \in DOMAIN Layers :
         /\ Len(Kids(Layers[i], "TileMatrixSetLink")) = 1
         /\ Len(LinkedTileMatrixSets(Layers[i])) = 1
         /\ LinkedTileMatrixSets(Layers[i])[1] \in Range(TileMatrixSetIdentifiers)

\* The document is read and its last Layer links to WorldCRS84Quad.
LastLayerLinkRead ==
  /\ Done
  /\ Layers # << >>
  /\ LinkedTileMatrixSets(Layers[Len(Layers)]) = <<"WorldCRS84Quad">>

\* The TileMatrix elements of the tile matrix set WorldCRS84Quad.
TileMatrices ==
  KidsOfAll(SelectSeq(TileMatrixSets,
                      LAMBDA s : KidTexts(s, "ows:Identifier") = <<"WorldCRS84Quad">>),
            "TileMatrix")

\* The element has exactly one child of that name, and its text is an integer.
HasInt(node, name) ==
  Len(KidTexts(node, name)) = 1 /\ IsInt(KidTexts(node, name)[1])

IntOf(node, name) == ParseInt(KidTexts(node, name)[1])

\* The two numbers of a text "x y".
IsIntPair(s) == Find(s, " ") > 0 /\ IsInt(Before(s, " ")) /\ IsInt(After(s, " "))

IntPair(s) == <<ParseInt(Before(s, " ")), ParseInt(After(s, " "))>>

\* C3: the TileMatrix identifiers of WorldCRS84Quad are consecutive integers in
\* ascending order, and the TileMatrix z has MatrixWidth 2^(z+1), MatrixHeight
\* 2^z, TileWidth and TileHeight 256 and TopLeftCorner (-180, 90).
TileMatricesAreCRS84Quad ==
  Done =>
    /\ \A k \in DOMAIN TileMatrices :
         LET m == TileMatrices[k] IN
           /\ HasInt(m, "ows:Identifier") /\ IntOf(m, "ows:Identifier") >= 0
           /\ HasInt(m, "MatrixWidth") /\ HasInt(m, "MatrixHeight")
           /\ HasInt(m, "TileWidth") /\ HasInt(m, "TileHeight")
           /\ Len(KidTexts(m, "TopLeftCorner")) = 1
           /\ IsIntPair(KidTexts(m, "TopLeftCorner")[1])
           /\ LET z == IntOf(m, "ows:Identifier") IN
                /\ IntOf(m, "MatrixWidth") = 2 ^ (z + 1)
                /\ IntOf(m, "MatrixHeight") = 2 ^ z
                /\ IntOf(m, "MatrixWidth") = 2 * IntOf(m, "MatrixHeight")
           /\ IntOf(m, "TileWidth") = 256
           /\ IntOf(m, "TileHeight") = 256
           /\ IntPair(KidTexts(m, "TopLeftCorner")[1]) = <<0 - 180, 90>>
    /\ \A k \in 1..(Len(TileMatrices) - 1) :
         /\ IntOf(TileMatrices[k + 1], "ows:Identifier")
              = IntOf(TileMatrices[k], "ows:Identifier") + 1
         /\ IntOf(TileMatrices[k + 1], "MatrixWidth")
              = 2 * IntOf(TileMatrices[k], "MatrixWidth")
         /\ IntOf(TileMatrices[k + 1], "MatrixHeight")
              = 2 * IntOf(TileMatrices[k], "MatrixHeight")

\* The document is read and WorldCRS84Quad has the TileMatrix levels 7, 8 and 9.
TileMatricesRead ==
  /\ Done
  /\ [k \in DOMAIN TileMatrices |-> KidTexts(TileMatrices[k], "ows:Identifier")]
       = << <<"7">>, <<"8">>, <<"9">> >>

\* The two parts of a Layer identifier <dataset>.<variable>.
Dataset(id) == Before(id, ".")

Variable(id) == After(id, ".")

\* The HTTP Get endpoints of an operation.
Endpoints(op) ==
  KidsOfAll(KidsOfAll(Kids(op, "ows:DCP"), "ows:HTTP"), "ows:Get")

Href(node) == node.attrs["xlink:href"]

\* The values the GetEncoding constraint of an endpoint allows.
Encodings(get) ==
  Texts(KidsOfAll(KidsOfAll(SelectSeq(Kids(get, "ows:Constraint"),
                                      LAMBDA c : c.attrs["name"] = "GetEncoding"),
                            "ows:AllowedValues"),
                  "ows:Value"))

\* The server base URL: what precedes /wmts/kvp? in the first endpoint of the
\* first operation.
BaseURL ==
  LET href == Href(Endpoints(Operations[1])[1])
  IN  SubSeq(href, 1, Len(href) - Len("/wmts/kvp?"))

ResourceURLs(layer) == Kids(layer, "ResourceURL")

\* The tile URL template of the layer id in the tile matrix set tms.
TileTemplate(id, tms) ==
  BaseURL \o "/wmts/1.0.0/tile/" \o Dataset(id) \o "/" \o Variable(id) \o "/"
    \o tms \o "/{TileMatrix}/{TileRow}/{TileCol}.png"

\* C4: a Layer <dataset>.<variable> has exactly one ResourceURL, whose template
\* is <base>/wmts/1.0.0/tile/<dataset>/<variable>/<TileMatrixSet>/{TileMatrix}/
\* {TileRow}/{TileCol}.png with the parts of its own Identifier, the set of its
\* own TileMatrixSetLink and the base URL of the operation endpoints; it is the
\* template of no other Layer.
ResourceURLNamesOwnLayer ==
  Done =>
    /\ \A o \in DOMAIN Operations : \A e \in DOMAIN Endpoints(Operations[o]) :
         StartsWith(Href(Endpoints(Operations[o])[e]), BaseURL \o "/wmts/")
    /\ \A i \in DOMAIN Layers :
         Find(LayerIdentifiers[i], ".") > 0 =>
           /\ Len(ResourceURLs(Layers[i])) = 1
           /\ Len(LinkedTileMatrixSets(Layers[i])) = 1
           /\ ResourceURLs(Layers[i])[1].attrs["template"]
                = TileTemplate(LayerIdentifiers[i], LinkedTileMatrixSets(Layers[i])[1])
           /\ \A j \in DOMAIN Layers :
                (/\ Len(LinkedTileMatrixSets(Layers[j])) = 1
                 /\ ResourceURLs(Layers[i])[1].attrs["template"]
                      = TileTemplate(LayerIdentifiers[j],
                                     LinkedTileMatrixSets(Layers[j])[1]))
                  => i = j

\* The document is read and has the Layer demo-1w.c2rcc_flags_stdev, of the
\* dataset demo-1w and the variable c2rcc_flags_stdev, with a ResourceURL.
StdevLayerResourceURLRead ==
  /\ Done
  /\ \E i \in DOMAIN Layers :
       /\ LayerIdentifiers[i] = "demo-1w.c2rcc_flags_stdev"
       /\ Dataset(LayerIdentifiers[i]) = "demo-1w"
       /\ Variable(LayerIdentifiers[i]) = "c2rcc_flags_stdev"
       /\ ResourceURLs(Layers[i]) # << >>

OperationNames == [o \in DOMAIN Operations |-> Operations[o].attrs["name"]]

\* The templates of all ResourceURL elements of the document.
Templates ==
  LET urls == KidsOfAll(Layers, "ResourceURL")
  IN  [k \in DOMAIN urls |-> urls[k].attrs["template"]]

\* C5: GetCapabilities and GetTile each list exactly two HTTP Get endpoints, the
\* first with GetEncoding KVP and the second with GetEncoding REST; the KVP
\* endpoint of both is <base>/wmts/kvp?; the ServiceMetadataURL is the REST
\* endpoint of GetCapabilities, <base>/wmts/1.0.0/<TileMatrixSet>/
\* WMTSCapabilities.xml; every endpoint and template has the same <base>.
EndpointsAreConsistent ==
  Done =>
    /\ \A n \in {"GetCapabilities", "GetTile"} :
         Cardinality({o \in DOMAIN Operations : OperationNames[o] = n}) = 1
    /\ \A o \in DOMAIN Operations :
         OperationNames[o] \in {"GetCapabilities", "GetTile"} =>
           LET gets == Endpoints(Operations[o]) IN
             /\ Len(gets) = 2
             /\ Encodings(gets[1]) = <<"KVP">>
             /\ Encodings(gets[2]) = <<"REST">>
             /\ Href(gets[1]) = BaseURL \o "/wmts/kvp?"
             /\ StartsWith(Href(gets[2]), BaseURL \o "/wmts/1.0.0/")
    /\ Len(ServiceMetadataURLs) = 1
    /\ \A o \in DOMAIN Operations :
         OperationNames[o] = "GetCapabilities" =>
           /\ Href(ServiceMetadataURLs[1]) = Href(Endpoints(Operations[o])[2])
           /\ \E t \in Range(TileMatrixSetIdentifiers) :
                Href(ServiceMetadataURLs[1])
                  = BaseURL \o "/wmts/1.0.0/" \o t \o "/WMTSCapabilities.xml"
    /\ \A k \in DOMAIN Templates : StartsWith(Templates[k], BaseURL \o "/wmts/1.0.0/")

\* The document is read, with both operations, the ServiceMetadataURL and the
\* base URL http://bibo.
EndpointsRead ==
  /\ Done
  /\ OperationNames = <<"GetCapabilities", "GetTile">>
  /\ Len(ServiceMetadataURLs) = 1
  /\ BaseURL = "http://bibo"

\* The top-level Themes, and the Themes nested in a Theme.
TopThemes == Kids(Themes, "Theme")

NestedThemes(theme) == Kids(theme, "Theme")

\* The datasets the Layers of Contents belong to.
Datasets == {Dataset(LayerIdentifiers[i]) : i \in DOMAIN Layers}

HasOne(node, name) == Len(Kids(node, name)) = 1

\* C6: Themes has two levels.  There is exactly one top-level Theme per dataset,
\* identified by the dataset and without a LayerRef of its own; a nested Theme
\* is identified by <parent Theme Identifier>.<variable>, has exactly one
\* LayerRef, equal to its Identifier, and the Title of the Layer it references.
ThemesAreTwoLevel ==
  Done =>
    /\ \A i \in DOMAIN Layers :
         HasOne(Layers[i], "ows:Identifier") /\ HasOne(Layers[i], "ows:Title")
    /\ \A t \in DOMAIN TopThemes :
         /\ HasOne(TopThemes[t], "ows:Identifier")
         /\ Identifier(TopThemes[t]) \in Datasets
         /\ Kids(TopThemes[t], "LayerRef") = << >>
    /\ \A d \in Datasets :
         Cardinality({t \in DOMAIN TopThemes : Identifier(TopThemes[t]) = d}) = 1
    /\ \A t \in DOMAIN TopThemes : \A n \in DOMAIN NestedThemes(TopThemes[t]) :
         LET theme == NestedThemes(TopThemes[t])[n] IN
           /\ HasOne(theme, "ows:Identifier") /\ HasOne(theme, "ows:Title")
           /\ NestedThemes(theme) = << >>
           /\ Find(Identifier(theme), ".") > 0
           /\ Dataset(Identifier(theme)) = Identifier(TopThemes[t])
           /\ Variable(Identifier(theme)) # ""
           /\ KidTexts(theme, "LayerRef") = <<Identifier(theme)>>
           /\ \E i \in DOMAIN Layers : LayerIdentifiers[i] = Identifier(theme)
           /\ \A i \in DOMAIN Layers :
                LayerIdentifiers[i] = KidTexts(theme, "LayerRef")[1]
                  => Title(Layers[i]) = Title(theme)

\* The document is read; its top-level Themes are demo and demo-1w, with 5 and
\* 10 nested Themes.
TwoLevelThemesRead ==
  /\ Done
  /\ [t \in DOMAIN TopThemes |-> KidTexts(TopThemes[t], "ows:Identifier")]
       = << <<"demo">>, <<"demo-1w">> >>
  /\ [t \in DOMAIN TopThemes |-> Len(NestedThemes(TopThemes[t]))] = <<5, 10>>

\* The time Dimension values of a Layer.
Dimensions(layer) == Kids(layer, "Dimension")

Values(layer) == Texts(KidsOfAll(Dimensions(layer), "Value"))

\* An instant is written yyyy-mm-ddThh:mm:ss.nnnnnnnnn.
IsInstant(s) ==
  /\ Len(s) = 29
  /\ CharAt(s, 5) = "-" /\ CharAt(s, 8) = "-" /\ CharAt(s, 11) = "T"
  /\ CharAt(s, 14) = ":" /\ CharAt(s, 17) = ":" /\ CharAt(s, 20) = "."
  /\ IsNat(SubSeq(s, 1, 4)) /\ IsNat(SubSeq(s, 6, 7)) /\ IsNat(SubSeq(s, 9, 10))
  /\ IsNat(SubSeq(s, 12, 13)) /\ IsNat(SubSeq(s, 15, 16)) /\ IsNat(SubSeq(s, 18, 19))
  /\ IsNat(SubSeq(s, 21, 29))
  /\ ParseNat(SubSeq(s, 6, 7)) \in 1..12
  /\ ParseNat(SubSeq(s, 9, 10)) \in 1..31
  /\ ParseNat(SubSeq(s, 12, 13)) \in 0..23
  /\ ParseNat(SubSeq(s, 15, 16)) \in 0..59
  /\ ParseNat(SubSeq(s, 18, 19)) \in 0..59

\* Year, month, day, hour, minute, second and nanosecond of an instant.
Instant(s) ==
  <<ParseNat(SubSeq(s, 1, 4)), ParseNat(SubSeq(s, 6, 7)), ParseNat(SubSeq(s, 9, 10)),
    ParseNat(SubSeq(s, 12, 13)), ParseNat(SubSeq(s, 15, 16)), ParseNat(SubSeq(s, 18, 19)),
    ParseNat(SubSeq(s, 21, 29))>>

\* The instant a is before the instant b.
Earlier(a, b) ==
  \E k \in DOMAIN a : a[k] < b[k] /\ \A j \in 1..(k - 1) : a[j] = b[j]

\* A Value is an instant or an interval start/end.
IsInterval(v) == Find(v, "/") > 0

IsTimeValue(v) ==
  IF IsInterval(v)
    THEN IsInstant(Before(v, "/")) /\ IsInstant(After(v, "/"))
    ELSE IsInstant(v)

StartOf(v) == IF IsInterval(v) THEN Instant(Before(v, "/")) ELSE Instant(v)

EndOf(v) == IF IsInterval(v) THEN Instant(After(v, "/")) ELSE Instant(v)

\* C7: every Layer has exactly one Dimension, with Identifier time, UOM ISO8601,
\* Default current and Current true; its Values are instants or intervals
\* start/end with start before end, in strictly ascending time order, without
\* duplicate and without overlap of consecutive intervals; the Layers of one
\* dataset have the same list of Values.
TimeDimensionIsOrdered ==
  Done =>
    /\ \A i \in DOMAIN Layers :
         LET dim == Dimensions(Layers[i])
             vs == Values(Layers[i])
         IN  /\ Len(dim) = 1
             /\ KidTexts(dim[1], "ows:Identifier") = <<"time">>
             /\ KidTexts(dim[1], "ows:UOM") = <<"ISO8601">>
             /\ KidTexts(dim[1], "Default") = <<"current">>
             /\ KidTexts(dim[1], "Current") = <<"true">>
             /\ \A k \in DOMAIN vs :
                  /\ IsTimeValue(vs[k])
                  /\ IsInterval(vs[k]) => Earlier(StartOf(vs[k]), EndOf(vs[k]))
             /\ \A k \in DOMAIN vs : \A l \in DOMAIN vs :
                  k < l => vs[k] # vs[l] /\ Earlier(StartOf(vs[k]), StartOf(vs[l]))
             /\ \A k \in 1..(Len(vs) - 1) : Earlier(EndOf(vs[k]), StartOf(vs[k + 1]))
    /\ \A i \in DOMAIN Layers : \A j \in DOMAIN Layers :
         Dataset(LayerIdentifiers[i]) = Dataset(LayerIdentifiers[j])
           => Values(Layers[i]) = Values(Layers[j])

\* The document is read; one Layer has five intervals as Values and another
\* Layer three instants.
IntervalsAndInstantsRead ==
  /\ Done
  /\ \E i \in DOMAIN Layers :
       Len(Values(Layers[i])) = 5 /\ \A k \in 1..5 : IsInterval(Values(Layers[i])[k])
  /\ \E i \in DOMAIN Layers :
       Len(Values(Layers[i])) = 3 /\ \A k \in 1..3 : ~IsInterval(Values(Layers[i])[k])

\* The dataset of each Layer, in the order of Contents.
LayerDatasets == [i \in DOMAIN Layers |-> Dataset(LayerIdentifiers[i])]

\* The entries of a sequence in the order of their first occurrence.
RECURSIVE FirstOccurrences(_)
FirstOccurrences(seq) ==
  IF seq = << >>
    THEN << >>
    ELSE LET front == FirstOccurrences(SubSeq(seq, 1, Len(seq) - 1))
         IN  IF seq[Len(seq)] \in Range(front) THEN front ELSE Append(front, seq[Len(seq)])

\* C8: the Layers of one dataset are contiguous in Contents, the datasets are in
\* the order of the top-level Themes, and the nested Themes of a dataset are in
\* the order of its Layers.
LayersAndThemesInSameOrder ==
  Done =>
    /\ \A i \in DOMAIN Layers : \A k \in DOMAIN Layers :
         (i < k /\ LayerDatasets[i] = LayerDatasets[k])
           => \A j \in i..k : LayerDatasets[j] = LayerDatasets[i]
    /\ FirstOccurrences(LayerDatasets)
         = [t \in DOMAIN TopThemes |-> Identifier(TopThemes[t])]
    /\ \A t \in DOMAIN TopThemes :
         Texts(KidsOfAll(NestedThemes(TopThemes[t]), "LayerRef"))
           = SelectSeq(LayerIdentifiers,
                       LAMBDA id : Dataset(id) = Identifier(TopThemes[t]))
    /\ LayerRefs = LayerIdentifiers

\* The document is read; Contents has the Layers of two datasets, five of demo
\* followed by ten of demo-1w.
TwoDatasetRunsRead ==
  /\ Done
  /\ Len(Layers) = 15
  /\ \A i \in 1..5 : LayerDatasets[i] = "demo"
  /\ \A i \in 6..15 : LayerDatasets[i] = "demo-1w"

\* All the nested Themes of the document, in document order.
AllNestedThemes == KidsOfAll(TopThemes, "Theme")

\* C11: no two Layers of Contents have the same Identifier, and no two nested
\* Themes have the same Identifier, also where two of them have the same Title.
IdentifiersAreDistinct ==
  Done =>
    /\ \A i \in DOMAIN Layers : HasOne(Layers[i], "ows:Identifier")
    /\ \A i \in DOMAIN Layers : \A j \in DOMAIN Layers :
         i # j => Identifier(Layers[i]) # Identifier(Layers[j])
    /\ \A i \in DOMAIN AllNestedThemes : HasOne(AllNestedThemes[i], "ows:Identifier")
    /\ \A i \in DOMAIN AllNestedThemes : \A j \in DOMAIN AllNestedThemes :
         i # j => Identifier(AllNestedThemes[i]) # Identifier(AllNestedThemes[j])

\* The document is read; two Layers of one dataset have the same Title, and so
\* have two nested Themes.
SharedTitlesRead ==
  /\ Done
  /\ \E i \in DOMAIN Layers : \E j \in DOMAIN Layers :
       /\ i # j
       /\ Title(Layers[i]) = Title(Layers[j])
       /\ LayerDatasets[i] = LayerDatasets[j]
  /\ \E i \in DOMAIN AllNestedThemes : \E j \in DOMAIN AllNestedThemes :
       i # j /\ Title(AllNestedThemes[i]) = Title(AllNestedThemes[j])

Styles(layer) == Kids(layer, "Style")

Formats(layer) == KidTexts(layer, "Format")

\* The file extension of a media type: .png for image/png.
Extension(format) == "." \o After(format, "/")

\* C12: every Layer has exactly one Style, with isDefault true and Identifier
\* Default, and exactly one Format, image/png, equal to the format of the
\* Layer's ResourceURL, whose resourceType is tile and whose template ends in
\* the extension of that format, .png.
StyleAndFormatAreConsistent ==
  Done =>
    \A i \in DOMAIN Layers :
      /\ Len(Styles(Layers[i])) = 1
      /\ Styles(Layers[i])[1].attrs["isDefault"] = "true"
      /\ KidTexts(Styles(Layers[i])[1], "ows:Identifier") = <<"Default">>
      /\ Formats(Layers[i]) = <<"image/png">>
      /\ Len(ResourceURLs(Layers[i])) = 1
      /\ LET url == ResourceURLs(Layers[i])[1] IN
           /\ url.attrs["format"] = Formats(Layers[i])[1]
           /\ url.attrs["resourceType"] = "tile"
           /\ Extension(url.attrs["format"]) = ".png"
           /\ EndsWith(url.attrs["template"], Extension(Formats(Layers[i])[1]))

\* The document is read, and its last Layer has a Style, a Format and a
\* ResourceURL with a format.
StyleFormatAndResourceURLRead ==
  /\ Done
  /\ Layers # << >>
  /\ LET layer == Layers[Len(Layers)] IN
       /\ Styles(layer) # << >>
       /\ Formats(layer) # << >>
       /\ ResourceURLs(layer) # << >>
       /\ "format" \in DOMAIN ResourceURLs(layer)[1].attrs

\* A coordinate is a decimal number: an optional sign, digits, and optionally a
\* point and digits.  Its value is the fraction num / den.
Unsigned(s) == IF StartsWith(s, "-") THEN Tail(s) ELSE s

IsDecimal(s) ==
  IF Find(Unsigned(s), ".") > 0
    THEN IsNat(Before(Unsigned(s), ".")) /\ IsNat(After(Unsigned(s), "."))
    ELSE IsNat(Unsigned(s))

Decimal(s) ==
  LET u == Unsigned(s)
      whole == IF Find(u, ".") > 0 THEN Before(u, ".") ELSE u
      fraction == IF Find(u, ".") > 0 THEN After(u, ".") ELSE ""
      den == 10 ^ Len(fraction)
      magnitude == ParseNat(whole) * den + ParseNat(fraction)
  IN  [num |-> IF StartsWith(s, "-") THEN 0 - magnitude ELSE magnitude, den |-> den]

\* a <= b, for fractions with positive denominators.
LeqDecimal(a, b) == a.num * b.den <= b.num * a.den

Whole(n) == [num |-> n, den |-> 1]

\* A corner is written "x y"; its value is the pair of its coordinates.
IsCorner(s) ==
  Find(s, " ") > 0 /\ IsDecimal(Before(s, " ")) /\ IsDecimal(After(s, " "))

Corner(s) == <<Decimal(Before(s, " ")), Decimal(After(s, " "))>>

\* p <= q in both coordinates.
LeqCorner(p, q) == LeqDecimal(p[1], q[1]) /\ LeqDecimal(p[2], q[2])

\* A bounding box element has one LowerCorner and one UpperCorner, both corners.
IsBox(box) ==
  /\ HasOne(box, "ows:LowerCorner") /\ IsCorner(KidTexts(box, "ows:LowerCorner")[1])
  /\ HasOne(box, "ows:UpperCorner") /\ IsCorner(KidTexts(box, "ows:UpperCorner")[1])

LowerCorner(box) == Corner(KidTexts(box, "ows:LowerCorner")[1])

UpperCorner(box) == Corner(KidTexts(box, "ows:UpperCorner")[1])

\* The TileMatrixSet elements of Contents a layer links to.
LinkedSets(layer) ==
  SelectSeq(TileMatrixSets,
            LAMBDA s : \E k \in DOMAIN LinkedTileMatrixSets(layer) :
                         KidTexts(s, "ows:Identifier") = <<LinkedTileMatrixSets(layer)[k]>>)

\* C13: the WGS84BoundingBox of every Layer has LowerCorner <= UpperCorner in
\* both coordinates and lies inside the BoundingBox of the TileMatrixSet the
\* Layer links to; both corners are within [-180, 180] x [-90, 90], longitude
\* first and latitude second, the order of the TileMatrixSet's CRS84
\* BoundingBox (-180 -90, 180 90).
BoundingBoxesAreWellFormed ==
  Done =>
    \A i \in DOMAIN Layers :
      /\ HasOne(Layers[i], "ows:WGS84BoundingBox")
      /\ IsBox(Kids(Layers[i], "ows:WGS84BoundingBox")[1])
      /\ LinkedSets(Layers[i]) # << >>
      /\ LET box == Kids(Layers[i], "ows:WGS84BoundingBox")[1] IN
           /\ LeqCorner(LowerCorner(box), UpperCorner(box))
           /\ \A c \in {LowerCorner(box), UpperCorner(box)} :
                /\ LeqCorner(<<Whole(0 - 180), Whole(0 - 90)>>, c)
                /\ LeqCorner(c, <<Whole(180), Whole(90)>>)
           /\ \A s \in DOMAIN LinkedSets(Layers[i]) :
                LET set == LinkedSets(Layers[i])[s] IN
                  /\ HasOne(set, "ows:BoundingBox")
                  /\ IsBox(Kids(set, "ows:BoundingBox")[1])
                  /\ Kids(set, "ows:BoundingBox")[1].attrs["crs"]
                       = "urn:ogc:def:crs:OGC:1.3:CRS84"
                  /\ LowerCorner(Kids(set, "ows:BoundingBox")[1])
                       = <<Whole(0 - 180), Whole(0 - 90)>>
                  /\ UpperCorner(Kids(set, "ows:BoundingBox")[1])
                       = <<Whole(180), Whole(90)>>
                  /\ LeqCorner(LowerCorner(Kids(set, "ows:BoundingBox")[1]),
                               LowerCorner(box))
                  /\ LeqCorner(UpperCorner(box),
                               UpperCorner(Kids(set, "ows:BoundingBox")[1]))

\* The document is read, and a Layer has the bounding box from (0, 50) to
\* (5, 52.5), the latter read as the fraction 525 / 10.
FractionalBoundingBoxRead ==
  /\ Done
  /\ \E i \in DOMAIN Layers :
       /\ HasOne(Layers[i], "ows:WGS84BoundingBox")
       /\ LowerCorner(Kids(Layers[i], "ows:WGS84BoundingBox")[1])
            = <<Whole(0), Whole(50)>>
       /\ UpperCorner(Kids(Layers[i], "ows:WGS84BoundingBox")[1])
            = <<Whole(5), [num |-> 525, den |-> 10]>>

====
